---- MODULE Spec2Model ----
(***************************************************************************)
(* Renewal orchestrator of dimension-bridge: the certificate manager's     *)
(* check / backup / generate / verify / deploy / reload / notify cycle.    *)
(*                                                                         *)
(* The repository holds two programs with the same operations:             *)
(*   variant "bin" : src/src/main.rs (the dimension-bridge executable)     *)
(*   variant "lib" : src/src/lib.rs  (the dimension_bridge library)        *)
(* Both are modelled; `variant` selects which code a behaviour follows.    *)
(*                                                                         *)
(* One action is one external operation of the code (a file-system call    *)
(* or a subprocess): a concurrent consumer of the certificate directory    *)
(* observes the state between any two of them, and each may fail.          *)
(***************************************************************************)
EXTENDS Integers, FiniteSets, Sequences, TLC

\* ------------------------------------------------------------- bounds
\* Number of cycles one process run is followed for (the bootstrap renewal
\* of main.rs run() counts as one).
MaxCycles == 2

\* Number of backup_cert calls followed against one backup directory.
MaxBackupCalls == 3

\* ---------------------------------------------------- program constants
\* Days of backup retention (chrono::Duration::days(30)).
RetentionDays == 30
\* Default of DAYS_BEFORE_RENEWAL.
DaysBeforeRenewal == 5

\* --------------------------------------------------------------- files
\* A file's content: gen = 0 is "no such file"; gen = 1 is material that
\* was deployed before this process started; gen > 1 was written by a
\* backend in this run (GenOf).  wf: the certificate parses (openssl x509 exits
\* zero on it).  id: its text contains the configured subject identity.
\* mode: the permission bits ("def" = whatever the writer's umask gave).
Missing == [gen |-> 0, wf |-> FALSE, id |-> FALSE, mode |-> "def"]

Exists(f) == f.gen # 0

NoPair == [crt |-> Missing, key |-> Missing]

OldCrt(wf) == [gen |-> 1, wf |-> wf, id |-> wf, mode |-> "644"]

OldKey == [gen |-> 1, wf |-> TRUE, id |-> TRUE, mode |-> "600"]

\* The days-remaining values an expiry inspection can report: below, on and
\* above the renewal threshold.
DaysLeftValues == {DaysBeforeRenewal - 1, DaysBeforeRenewal, DaysBeforeRenewal + 1}

\* Configured lengths of the sleep between two checks, in days: within the
\* retention window and past it.
SleepDays == {1, RetentionDays + 1}

VARIABLES
  variant,      \* "bin" (main.rs) or "lib" (lib.rs)
  mode,         \* the command: "run" (daemon), "once", ...
  identitySet,  \* SERVER_IP or CERT_DOMAINS is set
  webhook,      \* SLACK_WEBHOOK_URL is set
  reloadCmd,    \* RELOAD_COMMAND is set
  interval,     \* config.check_interval, in days
  pc,           \* the position of the program
  phase,        \* "initial": main.rs run()'s bootstrap renewal; "loop"
  cycles,       \* cycles started so far
  now,          \* the clock, in days
  live,         \* <cert_dir>/<service>.{crt,key}
  tmp,          \* <cert_dir>/<service>-new.{crt,key}
  aside,        \* <cert_dir>/<service>.{crt,key}.old
  backups,      \* entries of <cert_dir>/backup
  sentinel,     \* <cert_dir>/.restart_needed exists
  cy,           \* what happened in the current cycle (history of the cycle)
  exit,         \* "none" while running, else the process's exit status
  env,          \* the environment variables the process was started with
  conf,         \* the Config that Config::from_env built from them
  res           \* results of the pure computations on the configuration

vars == <<variant, mode, identitySet, webhook, reloadCmd, interval, pc, phase, cycles,
          now, live, tmp, aside, backups, sentinel, cy, exit, env, conf, res>>

\* The settings the process was started with.
settings == <<variant, mode, identitySet, webhook, reloadCmd, interval>>

config ==
  <<variant, mode, identitySet, webhook, reloadCmd, interval, env, conf, res>>

files == <<live, tmp, aside, backups, sentinel>>

\* The history of one cycle, reset when a cycle starts.
\*   live0   : the live pair when the cycle started
\*   check   : result of the expiry inspection
\*   backup  : result of the backup step
\*   prune   : result of cleanup_old_backups: "ok", "stuck" (a removal
\*             failed), "list_err" (the directory could not be read)
\*   step    : result of the primary backend (Step CLI)
\*   openssl : result of the fallback backend (OpenSSL)
\*   verify  : result of verify_cert
\*   dep0    : the live pair when deployment started
\*   asideErr: live files that existed and whose move aside failed
\*   moved   : candidate files renamed into live paths in this cycle
\*   perm    : "failed" when a set_permissions call of the deployment failed
\*   reload  : a reload trigger (command or sentinel) fired
\*   rres    : what the reload trigger did (ReloadResults, "sentinel",
\*             "sentinel_err"), "none" when none was attempted
\*   notes   : notifications the cycle attempted
\*   sent    : what became of the last notification (Delivery)
\*   ret     : what the renewal returned to its caller
\*   outcome : the cycle's outcome
\*   slept   : the loop's sleep after this cycle has elapsed
\*   prior   : runs of the backend chain in earlier cycles since the last
\*             sleep (or since the process started)
NewCycle(l) ==
  [live0 |-> l, check |-> "none", backup |-> "none", prune |-> "none",
   step |-> "none",
   openssl |-> "none", verify |-> "none", dep0 |-> NoPair, moved |-> {},
   perm |-> "none", reload |-> FALSE, rres |-> "none", notes |-> {},
   sent |-> "none", ret |-> "none", outcome |-> "none", asideErr |-> {},
   slept |-> FALSE, prior |-> 0]

\* An environment variable: unset, set to bytes that are not valid Unicode,
\* or set to a text.
Unset == [k |-> "unset", v |-> ""]

NotUnicode == [k |-> "bad", v |-> ""]

Text(t) == [k |-> "text", v |-> t]

\* The environment with only the identity given.
EnvOf(identity) ==
  [SERVER_IP |-> identity, CERT_DOMAINS |-> Unset, CHECK_INTERVAL |-> Unset,
   DAYS_BEFORE_RENEWAL |-> Unset, CERT_VALIDITY_DAYS |-> Unset]

\* No Config has been built (yet).
NoConfig ==
  [server_ip |-> "", check_interval |-> 0, days_before_renewal |-> 0,
   cert_validity_days |-> 0]

\* Nothing has been computed (yet).
NoResult ==
  [step |-> {}, openssl |-> "", secs |-> 0, check |-> "none",
   cmd |-> "", argv |-> <<>>, hours |-> [hi |-> 0, lo |-> 0], days |-> 0,
   panic |-> FALSE]

Init ==
  /\ variant \in {"bin", "lib"}
  /\ mode \in {"run", "once"}
  /\ identitySet \in BOOLEAN
  /\ webhook \in BOOLEAN
  /\ reloadCmd \in BOOLEAN
  /\ interval \in IF mode = "run" THEN SleepDays ELSE {1}
  /\ pc = "start"
  /\ phase = "loop"
  /\ cycles = 0
  /\ now = 0
  /\ \E c \in {Missing, OldCrt(TRUE), OldCrt(FALSE)}, k \in {Missing, OldKey} :
       live = [crt |-> c, key |-> k]
  /\ tmp = NoPair
  /\ aside = NoPair
  /\ backups = {}
  /\ sentinel = FALSE
  /\ cy = NewCycle(live)
  /\ exit = "none"
  /\ env = EnvOf(IF identitySet THEN Text("127.0.0.1") ELSE Unset)
  /\ conf = NoConfig
  /\ res = NoResult

\* ------------------------------------------------------ process result
\* The process ends with the given status.
Exit(status) ==
  /\ pc' = "exited"
  /\ exit' = status

\* Config::from_env: the only startup failure is a missing identity.
LoadConfig ==
  /\ pc = "start"
  /\ IF ~identitySet
       THEN Exit("err")
       ELSE /\ pc' = IF variant = "bin" THEN "init" ELSE "check"
            /\ exit' = exit
  /\ UNCHANGED <<config, phase, cycles, now, files, cy>>

\* main.rs initialize(), then run()'s test for an initial certificate (the
\* bootstrap renewal, a cycle of its own that starts without a CHECK):
\* create_dir_all may fail (Err, propagated by `?`).
Initialize ==
  /\ pc = "init"
  /\ \E ok \in BOOLEAN :
       IF ~ok
         THEN /\ Exit("err")
              /\ UNCHANGED <<phase, cycles, cy>>
         ELSE IF mode = "run" /\ ~Exists(live.crt)
           THEN /\ pc' = "bk_mkdir"
                /\ phase' = "initial"
                /\ cycles' = cycles + 1
                /\ cy' = NewCycle(live)
                /\ exit' = exit
           ELSE /\ pc' = "check"
                /\ UNCHANGED <<phase, cycles, cy, exit>>
  /\ UNCHANGED <<config, now, files>>

\* ------------------------------------------------------- cycle result
\* A notifier that posts whether or not an endpoint is configured.
DeliveryAlwaysPosts == {"ok", "http_err", "net_err"}

\* Slack/webhook delivery of one message: nothing is sent without an
\* endpoint; with one, the POST succeeds, is answered non-2xx, or fails in
\* the network.
Delivery == IF webhook THEN {"ok", "http_err", "net_err"} ELSE {"skipped"}

\* lib.rs send_slack_notification: `.send().await?` returns the network
\* error; a non-success status is only logged.
SendSlackNotificationFails(d) == d = "net_err"

\* main.rs send_notification: returns nothing; both a network error and a
\* non-success status are only logged.
SendNotificationFails(d) == FALSE

\* The cycle history after a notification msg was attempted with delivery d.
Noted(c, msg, d) == [c EXCEPT !.notes = @ \cup {msg}, !.sent = d]

\* main.rs: renew_certificate returned r ("true", "false", "err") to run()
\* (bootstrap renewal, `?`) or to check_and_renew (`?`, the boolean is only
\* logged), whose own result run()/run_once() propagate with `?`.
BinReturn(r, out, c) ==
  /\ cy' = [c EXCEPT !.ret = r, !.outcome = out]
  /\ IF r = "err"
       THEN /\ Exit("err")
            /\ phase' = phase
       ELSE IF phase = "initial"
         THEN /\ pc' = "check"
              /\ phase' = "loop"
              /\ exit' = exit
         ELSE /\ phase' = phase
              /\ IF mode = "run"
                   THEN /\ pc' = "sleep"
                        /\ exit' = exit
                   ELSE Exit("ok")

\* lib.rs: generate_cert returned r to run()/run_once(), which match on it.
LibReturn(r, out, c) ==
  /\ cy' = [c EXCEPT !.ret = r, !.outcome = out]
  /\ pc' = "notify"
  /\ UNCHANGED <<phase, exit>>

\* The renewal ends with result r and outcome out; c is the cycle history.
Return(r, out, c) ==
  IF variant = "bin" THEN BinReturn(r, out, c) ELSE LibReturn(r, out, c)

\* The cycle is over: the program sleeps, has exited, or (main.rs) is back
\* at the loop head after the bootstrap renewal.
CycleEnded ==
  \/ pc \in {"sleep", "exited"}
  \/ pc = "check" /\ cy.outcome # "none"

\* -------------------------------------------------------- expiry check
\* A renewal threshold that is exclusive.
NeedsRenewalAtExclusive(daysLeft, threshold) == daysLeft < threshold

\* check_cert_expiry's comparison: days_left <= days_before_renewal.
NeedsRenewalAt(daysLeft, threshold) == daysLeft <= threshold

\* The same with the default threshold, which the cycle model runs with.
NeedsRenewal(daysLeft) == NeedsRenewalAt(daysLeft, DaysBeforeRenewal)

\* What the expiry inspection can find for the live certificate c.
CheckResults(c) ==
  IF ~Exists(c) THEN {"missing"}
  ELSE {"spawn_err"} \cup
       (IF c.wf
          THEN {"unparsable"} \cup
               {IF NeedsRenewal(d) THEN "due" ELSE "valid" : d \in DaysLeftValues}
          ELSE {"exit_nonzero"})

\* An expiry check for which a missing certificate file is an error.
CheckReturnMissingIsErr(r) ==
  CASE r \in {"spawn_err", "unparsable", "missing"} -> "err"
    [] r = "valid" -> "true"
    [] OTHER -> "false"

\* check_cert_expiry's return value: Ok(true) = valid, Ok(false) = renew,
\* Err for a failed spawn (`output()?`) or an unparsable date (`map_err ?`).
CheckReturn(r) ==
  CASE r \in {"spawn_err", "unparsable"} -> "err"
    [] r = "valid" -> "true"
    [] OTHER -> "false"

\* A caller that renews whatever the expiry check returned.
CheckDecisionAlwaysRenew(r) ==
  IF CheckReturn(r) = "err" /\ variant = "lib" THEN "abort" ELSE "renew"

\* What the caller makes of it: "renew", "skip" or "abort".
\* main.rs check_and_renew: `.unwrap_or(false)`, so an error means renew.
\* lib.rs run/run_once: `?`, so an error leaves the function.
CheckDecision(r) ==
  CASE CheckReturn(r) = "true" -> "skip"
    [] CheckReturn(r) = "false" -> "renew"
    [] OTHER -> IF variant = "bin" THEN "renew" ELSE "abort"

\* Backend-chain runs since the last sleep, as the cycle after h finds them.
PriorAttempts(h) ==
  IF h.slept THEN 0 ELSE h.prior + (IF h.step # "none" THEN 1 ELSE 0)

\* CHECK: one pass of check_and_renew (main.rs) or of the loop body's first
\* statement (lib.rs).  A cycle starts here.
Check ==
  /\ pc = "check"
  /\ cycles' = cycles + 1
  /\ \E r \in CheckResults(live.crt) :
       LET c == [NewCycle(live) EXCEPT !.check = r, !.prior = PriorAttempts(cy)] IN
       CASE CheckDecision(r) = "renew" ->
              /\ pc' = "bk_mkdir"
              /\ cy' = c
              /\ UNCHANGED <<phase, exit>>
         [] CheckDecision(r) = "skip" ->
              /\ cy' = [c EXCEPT !.ret = "true", !.outcome = "skipped"]
              /\ phase' = phase
              /\ IF mode = "run"
                   THEN /\ pc' = "sleep"
                        /\ exit' = exit
                   ELSE Exit("ok")
         [] OTHER ->
              /\ cy' = [c EXCEPT !.ret = "err", !.outcome = "check_failed"]
              /\ phase' = phase
              /\ Exit("err")
  /\ UNCHANGED <<config, now, files>>

\* The sleep between two cycles of the daemon loop.
Sleep ==
  /\ pc = "sleep"
  /\ cycles < MaxCycles
  /\ now' = now + interval
  /\ pc' = "check"
  /\ cy' = [cy EXCEPT !.slept = TRUE]
  /\ UNCHANGED <<config, phase, cycles, files, exit>>

\* --------------------------------------------------------------- backup
\* A backup entry <service>.<kind>.<ts>: its name (kind, ts), its content
\* and its modification time.
Entry(kind, f) == [kind |-> kind, ts |-> now, gen |-> f.gen, mtime |-> now]

\* fs::copy onto a name replaces what was there.
CopyInto(bk, e) == {b \in bk : ~(b.kind = e.kind /\ b.ts = e.ts)} \cup {e}

\* cleanup_old_backups: the entries whose modification time is before the
\* cutoff, now - 30 days.
Expired(bk) == {b \in bk : b.mtime < now - RetentionDays}

\* backup_cert returned Err.  main.rs renew_certificate and lib.rs run_once
\* propagate it (`?`); lib.rs run logs it, sends a notification (`?`) and
\* goes on to generate.
BackupFailedIn(h) ==
  LET c == [h EXCEPT !.backup = "failed"] IN
  CASE variant = "bin" -> BinReturn("err", "backup_failed", c)
    [] variant = "lib" /\ mode = "once" ->
         /\ cy' = [c EXCEPT !.ret = "err", !.outcome = "backup_failed"]
         /\ phase' = phase
         /\ Exit("err")
    [] OTHER ->
         \E d \in Delivery :
           /\ phase' = phase
           /\ IF SendSlackNotificationFails(d)
                THEN /\ cy' = [Noted(c, "backup_failed", d)
                                  EXCEPT !.ret = "err", !.outcome = "backup_failed"]
                     /\ Exit("err")
                ELSE /\ cy' = Noted(c, "backup_failed", d)
                     /\ pc' = "gen_clear"
                     /\ exit' = exit

\* backup_cert returned Err from one of its own calls.
BackupFailed == BackupFailedIn(cy)

\* backup_cert: create_dir_all, then the test that both live files exist.
BackupMkdir ==
  /\ pc = "bk_mkdir"
  /\ \E ok \in BOOLEAN :
       IF ~ok THEN BackupFailed
       ELSE /\ IF Exists(live.crt) /\ Exists(live.key)
                 THEN /\ pc' = "bk_crt"
                      /\ cy' = cy
                 ELSE /\ pc' = "gen_clear"
                      /\ cy' = [cy EXCEPT !.backup = "nothing"]
            /\ UNCHANGED <<phase, exit>>
  /\ UNCHANGED <<config, cycles, now, files>>

\* backup_cert: fs::copy of the live certificate.
BackupCopyCrt ==
  /\ pc = "bk_crt"
  /\ \E ok \in BOOLEAN :
       IF ~ok THEN BackupFailed /\ backups' = backups
       ELSE /\ backups' = CopyInto(backups, Entry("crt", live.crt))
            /\ pc' = "bk_key"
            /\ UNCHANGED <<phase, exit, cy>>
  /\ UNCHANGED <<config, cycles, now, live, tmp, aside, sentinel>>

\* backup_cert: fs::copy of the live key.
BackupCopyKey ==
  /\ pc = "bk_key"
  /\ \E ok \in BOOLEAN :
       IF ~ok THEN BackupFailed /\ backups' = backups
       ELSE /\ backups' = CopyInto(backups, Entry("key", live.key))
            /\ pc' = "bk_clean"
            /\ UNCHANGED <<phase, exit, cy>>
  /\ UNCHANGED <<config, cycles, now, live, tmp, aside, sentinel>>

\* cleanup_old_backups: read_dir may fail (Err); a failed remove_file is
\* logged and the entry stays (the removals of one scan succeed or fail
\* together: the directory is writable or it is not).
BackupClean ==
  /\ pc = "bk_clean"
  /\ \E ok \in BOOLEAN :
       IF ~ok THEN /\ BackupFailedIn([cy EXCEPT !.prune = "list_err"])
                   /\ backups' = backups
       ELSE /\ \E stuck \in {{}, Expired(backups)} :
                 /\ backups' = (backups \ Expired(backups)) \cup stuck
                 /\ cy' = [cy EXCEPT !.backup = "done",
                                     !.prune = IF stuck = {} THEN "ok" ELSE "stuck"]
            /\ pc' = "gen_clear"
            /\ UNCHANGED <<phase, exit>>
  /\ UNCHANGED <<config, cycles, now, live, tmp, aside, sentinel>>

\* ------------------------------------------------------------ generate
\* What one backend run can do: the executable cannot be started; it exits
\* non-zero, leaving nothing or a partial certificate file; it exits zero
\* having written both files, or without having written the key.
BackendResults == {"spawn_err", "fail", "fail_partial", "ok", "ok_nokey"}

\* The backend reported success (`output.status.success()`).
BackendOk(r) == r \in {"ok", "ok_nokey"}

\* The candidate files a backend run leaves at the temporary paths, given
\* what was there (t), its result, and the written certificate's properties.
BackendOutput(t, r, g, wf, id) ==
  LET f == [gen |-> g, wf |-> wf, id |-> id, mode |-> "def"] IN
  CASE r = "ok" -> [crt |-> f, key |-> f]
    [] r = "ok_nokey" -> [t EXCEPT !.crt = f]
    [] r = "fail_partial" -> [t EXCEPT !.crt = [f EXCEPT !.wf = FALSE, !.id = FALSE]]
    [] OTHER -> t

\* The generation number of the candidate material of cycle n: a fresh one
\* for every renewal of the process.
GenOf(n) == n + 1

\* The properties a backend's certificate can have: well-formed with the
\* identity in its text, well-formed without it, or not parseable.
CertKinds == {<<TRUE, TRUE>>, <<TRUE, FALSE>>, <<FALSE, FALSE>>}

\* generate_cert without the `return` after a successful primary backend.
GenerateCertNextNoReturn(which, r) ==
  CASE r = "spawn_err" -> "err"
    [] which = "step" -> "openssl"
    [] BackendOk(r) -> "done"
    [] OTHER -> "false"

\* generate_cert going on to deployment whatever the fallback's exit status.
GenerateCertNextIgnoresStatus(which, r) ==
  CASE r = "spawn_err" -> "err"
    [] BackendOk(r) -> "done"
    [] which = "step" -> "openssl"
    [] OTHER -> "done"

\* generate_cert's control flow after backend `which` ended with r:
\*   `try_step_cli(..)?` / `try_openssl(..)` : a failed spawn is Err;
\*   `if try_step_cli(..)? { return .. }`    : success ends the chain;
\*   otherwise the fallback runs, and its failure is Ok(false).
GenerateCertNext(which, r) ==
  CASE r = "spawn_err" -> "err"
    [] BackendOk(r) -> "done"
    [] which = "step" -> "openssl"
    [] OTHER -> "false"

\* generate_cert: remove_file of both temporary paths, results ignored.
GenClear ==
  /\ pc = "gen_clear"
  /\ tmp' = NoPair
  /\ pc' = "step"
  /\ UNCHANGED <<config, phase, cycles, now, live, aside, backups, sentinel,
                 cy, exit>>

\* One backend run and what generate_cert does with its result.  On
\* success main.rs returns Ok(true) to renew_certificate, which verifies;
\* lib.rs calls deploy_cert at once.
Backend(which, r, wf, id) ==
  LET c == IF which = "step" THEN [cy EXCEPT !.step = r]
                             ELSE [cy EXCEPT !.openssl = r]
      nxt == GenerateCertNext(which, r)
  IN
  /\ tmp' = BackendOutput(tmp, r, GenOf(cycles), wf, id)
  /\ CASE nxt = "done" ->
            /\ pc' = IF variant = "bin" THEN "verify" ELSE "mv_crt"
            /\ cy' = [c EXCEPT !.dep0 = live]
            /\ UNCHANGED <<phase, exit>>
       [] nxt = "openssl" ->
            /\ pc' = "openssl"
            /\ cy' = c
            /\ UNCHANGED <<phase, exit>>
       [] nxt = "false" ->
            IF variant = "bin"
              THEN \E d \in Delivery :
                     BinReturn("false", "generation_failed",
                               Noted(c, "generation_failed", d))
              ELSE LibReturn("false", "generation_failed", c)
       [] OTHER -> Return("err", "generation_failed", c)
  /\ UNCHANGED <<config, cycles, now, live, aside, backups, sentinel>>

\* try_step_cli: the primary backend.
TryStepCli ==
  /\ pc = "step"
  /\ \E r \in BackendResults, k \in CertKinds :
       /\ r # "ok" => k = <<TRUE, TRUE>>
       /\ Backend("step", r, k[1], k[2])

\* try_openssl: the fallback backend.
TryOpenssl ==
  /\ pc = "openssl"
  /\ \E r \in BackendResults, k \in CertKinds :
       /\ r # "ok" => k = <<TRUE, TRUE>>
       /\ Backend("openssl", r, k[1], k[2])

\* --------------------------------------------------------------- verify
\* main.rs verify_cert on candidate certificate c: Ok(false) when
\* `openssl x509 -text` exits non-zero; a text without the server identity
\* is only warned about.
VerifyCert(c) == Exists(c) /\ c.wf

\* renew_certificate removing only the candidate certificate.
VerifyFailedCleanupCrtOnly(t) == [t EXCEPT !.crt = Missing]

\* renew_certificate after a failed verification: both temporary files are
\* removed.
VerifyFailedCleanup(t) == NoPair

\* main.rs: verify_cert and renew_certificate's handling of its result.
\* Either openssl spawn failing is Err (`output()?`).
Verify ==
  /\ pc = "verify"
  /\ \E spawned \in BOOLEAN :
       IF ~spawned
         THEN /\ BinReturn("err", "verification_failed",
                           [cy EXCEPT !.verify = "spawn_err"])
              /\ tmp' = tmp
         ELSE IF VerifyCert(tmp.crt)
           THEN /\ pc' = "rep_check"
                /\ cy' = [cy EXCEPT !.verify = "ok"]
                /\ UNCHANGED <<phase, exit, tmp>>
           ELSE /\ tmp' = VerifyFailedCleanup(tmp)
                /\ \E d \in Delivery :
                     BinReturn("false", "verification_failed",
                               Noted([cy EXCEPT !.verify = "failed"],
                                     "verification_failed", d))
  /\ UNCHANGED <<config, cycles, now, live, aside, backups, sentinel>>

\* --------------------------------------------------------------- deploy
\* main.rs replace_cert: the test that both candidate files exist.
ReplaceCheck ==
  /\ pc = "rep_check"
  /\ IF Exists(tmp.crt) /\ Exists(tmp.key)
       THEN /\ pc' = "aside_crt"
            /\ cy' = [cy EXCEPT !.dep0 = live]
            /\ UNCHANGED <<phase, exit>>
       ELSE \E d \in Delivery :
              BinReturn("false", "deployment_failed",
                        Noted(cy, "replacement_failed", d))
  /\ UNCHANGED <<config, cycles, now, files>>

\* fs::rename(from, to) on two paths of a pair: the pair after a successful
\* rename.  A rename of a missing file fails.
CanRename(f) == Exists(f)

\* main.rs replace_cert: `let _ = fs::rename(old, old.old)` for `which`;
\* the result is ignored.
Aside(which, next) ==
  /\ \E ok \in BOOLEAN :
       IF ok /\ CanRename(live[which])
         THEN /\ aside' = [aside EXCEPT ![which] = live[which]]
              /\ live' = [live EXCEPT ![which] = Missing]
              /\ cy' = cy
         ELSE /\ UNCHANGED <<aside, live>>
              /\ cy' = IF CanRename(live[which])
                         THEN [cy EXCEPT !.asideErr = @ \cup {which}]
                         ELSE cy
  /\ pc' = next
  /\ UNCHANGED <<config, phase, cycles, now, tmp, backups, sentinel, exit>>

AsideCrt == pc = "aside_crt" /\ Aside("crt", "aside_key")

AsideKey == pc = "aside_key" /\ Aside("key", "mv_crt")

\* replace_cert / deploy_cert: `fs::rename(new, live).await?` for `which`.
Move(which, next) ==
  /\ \E ok \in BOOLEAN :
       IF ok /\ CanRename(tmp[which])
         THEN /\ live' = [live EXCEPT ![which] = tmp[which]]
              /\ tmp' = [tmp EXCEPT ![which] = Missing]
              /\ cy' = [cy EXCEPT !.moved = @ \cup {which}]
              /\ pc' = next
              /\ UNCHANGED <<phase, exit>>
         ELSE /\ Return("err", "deployment_failed", cy)
              /\ UNCHANGED <<live, tmp>>
  /\ UNCHANGED <<config, cycles, now, aside, backups, sentinel>>

MoveCrt == pc = "mv_crt" /\ Move("crt", "mv_key")

MoveKey == pc = "mv_key" /\ Move("key", "chmod_crt")

\* replace_cert / set_cert_permissions: `fs::set_permissions(..).await?`.
Chmod(which, bits, next) ==
  /\ \E ok \in BOOLEAN :
       IF ok
         THEN /\ live' = [live EXCEPT ![which].mode = bits]
              /\ pc' = next
              /\ UNCHANGED <<phase, exit, cy>>
         ELSE /\ Return("err", "deployment_failed", [cy EXCEPT !.perm = "failed"])
              /\ live' = live
  /\ UNCHANGED <<config, cycles, now, tmp, aside, backups, sentinel>>

ChmodCrt == pc = "chmod_crt" /\ Chmod("crt", "644", "chmod_key")

\* The private key given the certificate's permission bits.
ChmodKeyWorldReadable == pc = "chmod_key" /\ Chmod("key", "644", "reload")

ChmodKey == pc = "chmod_key" /\ Chmod("key", "600", "reload")

\* --------------------------------------------------------------- reload
\* What running the reload command can do: the process cannot be started;
\* it runs and exits zero or non-zero.
ReloadResults == {"spawn_err", "exit_zero", "exit_nonzero"}

\* main.rs signal_restart, the command as configured: one containing "&&"
\* or ';' goes through `sh -c`; any other is split on whitespace and run
\* directly, and a blank one (no words) is Err("Empty reload command").
SignalRestartResults == ReloadResults \cup {"empty"}

\* A reload step that also treats a non-zero exit status as an error.
ReloadIsErrNonZeroExit(r) ==
  r \in {"spawn_err", "empty", "sentinel_err", "exit_nonzero"}

\* The reload results that are Err in the code (`output()?`, the empty
\* command, `fs::write(..).await?`); a non-zero exit is only a warning.
ReloadIsErr(r) == r \in {"spawn_err", "empty", "sentinel_err"}

\* main.rs signal_restart: the command when RELOAD_COMMAND is set, else the
\* sentinel file.  renew_certificate propagates Err (`?`); otherwise it
\* sends the success notification and returns Ok(true).
SignalRestart ==
  /\ pc = "reload"
  /\ variant = "bin"
  /\ \E r \in IF reloadCmd THEN SignalRestartResults
                           ELSE {"sentinel", "sentinel_err"} :
       /\ sentinel' = (sentinel \/ r = "sentinel")
       /\ IF ReloadIsErr(r)
            THEN BinReturn("err", "reload_failed", [cy EXCEPT !.rres = r])
            ELSE \E d \in Delivery :
                   BinReturn("true", "success",
                             Noted([cy EXCEPT !.reload = TRUE, !.rres = r],
                                   "success", d))
  /\ UNCHANGED <<config, cycles, now, live, tmp, aside, backups>>

\* lib.rs execute_reload_command: nothing without RELOAD_COMMAND; else
\* `sh -c`, a failed spawn is Err.  deploy_cert then returns Ok(true).
ExecuteReloadCommand ==
  /\ pc = "reload"
  /\ variant = "lib"
  /\ IF reloadCmd
       THEN \E r \in ReloadResults :
              IF ReloadIsErr(r)
                THEN LibReturn("err", "reload_failed", [cy EXCEPT !.rres = r])
                ELSE LibReturn("true", "success",
                               [cy EXCEPT !.reload = TRUE, !.rres = r])
       ELSE LibReturn("true", "success", cy)
  /\ UNCHANGED <<config, cycles, now, files>>

\* --------------------------------------------------------------- notify
\* lib.rs run: the notification for generate_cert's result.
RunMessageAlwaysSuccess(r) ==
  CASE r \in {"true", "false"} -> "success"
    [] OTHER -> "renewal_error"

RunMessage(r) ==
  CASE r = "true" -> "success"
    [] r = "false" -> "generation_failed"
    [] OTHER -> "renewal_error"

\* lib.rs run / run_once: the match on generate_cert's result.
\*   run      : every arm sends a notification (`?`), then the loop sleeps;
\*   run_once : Ok(true) sends one (`?`) and returns Ok; the other arms
\*              return Err.
Notify ==
  /\ pc = "notify"
  /\ phase' = phase
  /\ IF mode = "run"
       THEN \E d \in Delivery :
              /\ cy' = Noted(cy, RunMessage(cy.ret), d)
              /\ IF SendSlackNotificationFails(d)
                   THEN Exit("err")
                   ELSE /\ pc' = "sleep"
                        /\ exit' = exit
       ELSE IF cy.ret = "true"
         THEN \E d \in Delivery :
                /\ cy' = Noted(cy, "success", d)
                /\ IF SendSlackNotificationFails(d)
                     THEN Exit("err")
                     ELSE Exit("ok")
         ELSE /\ cy' = cy
              /\ Exit("err")
  /\ UNCHANGED <<config, cycles, now, files>>

\* ======================================================== configuration
\* Strings are handled as the code handles them, character by character.
Chars(str) == [i \in 1..Len(str) |-> SubSeq(str, i, i)]

RECURSIVE Str(_)
\* The string made of a sequence of characters.
Str(cs) == IF cs = <<>> THEN "" ELSE Head(cs) \o Str(Tail(cs))

RECURSIVE SplitOn(_, _)
\* str::split(sep) on a sequence of characters: the pieces between the
\* separators; a text without separator (the empty one too) is one piece.
SplitOn(cs, sep) ==
  LET at == {i \in 1..Len(cs) : cs[i] = sep} IN
  IF at = {} THEN <<cs>>
  ELSE LET i == CHOOSE j \in at : \A k \in at : j <= k
       IN <<SubSeq(cs, 1, i - 1)>> \o SplitOn(SubSeq(cs, i + 1, Len(cs)), sep)

IsDigit(c) == \E d \in 1..10 : SubSeq("0123456789", d, d) = c

DigitVal(c) == (CHOOSE d \in 1..10 : SubSeq("0123456789", d, d) = c) - 1

IsHexDigit(c) == \E d \in 1..22 : SubSeq("0123456789abcdefABCDEF", d, d) = c

RECURSIVE Value(_)
\* The number written by a sequence of digits.
Value(ds) ==
  IF ds = <<>> THEN 0
  ELSE 10 * Value(SubSeq(ds, 1, Len(ds) - 1)) + DigitVal(ds[Len(ds)])

RECURSIVE StripZeros(_)
StripZeros(ds) ==
  IF Len(ds) > 1 /\ Head(ds) = "0" THEN StripZeros(Tail(ds)) ELSE ds

RECURSIVE DigitsLeq(_, _)
\* ds <= ms for two digit sequences of the same length.
DigitsLeq(ds, ms) ==
  \/ ds = <<>>
  \/ DigitVal(Head(ds)) < DigitVal(Head(ms))
  \/ Head(ds) = Head(ms) /\ DigitsLeq(Tail(ds), Tail(ms))

\* The magnitude ds is at most the magnitude written by the text max.
MagnitudeLeq(ds, max) ==
  LET d == StripZeros(ds)  m == Chars(max) IN
  Len(d) < Len(m) \/ (Len(d) = Len(m) /\ DigitsLeq(d, m))

\* Digits of the integer types' limits (u32::MAX, u64::MAX, i64::MAX and
\* the magnitude of i64::MIN).
U32Max == "4294967295"

U64Max == "18446744073709551615"

I64Max == "9223372036854775807"

I64MinMagnitude == "9223372036854775808"

\* The longest numeral whose value the model computes (below 2^31).
ValueDigits == 9

\* str::parse for an integer type: an optional sign ('-' only for a signed
\* type), at least one digit, nothing else, and a value within the type.
\* The result is [ok, n]; n is computed for numerals of up to ValueDigits
\* significant digits, which covers every value drawn below.
ParseInteger(str, signed, maxPos, maxNeg) ==
  LET cs == Chars(str)
      sign == IF cs # <<>> /\ Head(cs) \in {"+", "-"} THEN Head(cs) ELSE ""
      ds == IF sign = "" THEN cs ELSE Tail(cs)
      neg == sign = "-"
      ok == /\ ds # <<>>
            /\ \A i \in 1..Len(ds) : IsDigit(ds[i])
            /\ neg => signed
            /\ MagnitudeLeq(ds, IF neg THEN maxNeg ELSE maxPos)
      mag == IF ok /\ Len(StripZeros(ds)) <= ValueDigits THEN Value(ds) ELSE 0
  IN [ok |-> ok, n |-> IF neg THEN -mag ELSE mag]

ParseU64(str) == ParseInteger(str, FALSE, U64Max, "0")

ParseI64(str) == ParseInteger(str, TRUE, I64Max, I64MinMagnitude)

ParseU32(str) == ParseInteger(str, FALSE, U32Max, "0")

\* env::var(..): Ok for a variable set to valid Unicode, Err when it is
\* unset or not Unicode.
VarOk(x) == x.k = "text"

\* The defaults of Config::from_env.
DefaultCheckInterval == 86400

DefaultCertValidityDays == 15

\* generate_cert: hours per day of validity.
HoursPerDay == 24

\* `env::var(X).unwrap_or_else(|_| default).parse::<T>().unwrap_or(default)`.
NumberOr(x, parsed, default) ==
  IF VarOk(x) /\ parsed.ok THEN parsed.n ELSE default

\* `domains.split(',').next().unwrap_or("localhost")`: split always yields a
\* first piece.
FirstEntry(str) == Str(Head(SplitOn(Chars(str), ",")))

\* An identity lookup that prefers CERT_DOMAINS.
ServerIdentityDomainsFirst(e) ==
  IF VarOk(e.CERT_DOMAINS) THEN [ok |-> TRUE, v |-> FirstEntry(e.CERT_DOMAINS.v)]
  ELSE IF VarOk(e.SERVER_IP) THEN [ok |-> TRUE, v |-> e.SERVER_IP.v]
  ELSE [ok |-> FALSE, v |-> ""]

\* from_env's identity: `env::var("SERVER_IP").or_else(|_| env::var(
\* "CERT_DOMAINS").map(first entry)).map_err(..)?`.
ServerIdentity(e) ==
  IF VarOk(e.SERVER_IP) THEN [ok |-> TRUE, v |-> e.SERVER_IP.v]
  ELSE IF VarOk(e.CERT_DOMAINS) THEN [ok |-> TRUE, v |-> FirstEntry(e.CERT_DOMAINS.v)]
  ELSE [ok |-> FALSE, v |-> ""]

\* The Config that from_env returns when the identity is there.
ConfigOf(e) ==
  [server_ip |-> ServerIdentity(e).v,
   check_interval |->
     NumberOr(e.CHECK_INTERVAL, ParseU64(e.CHECK_INTERVAL.v), DefaultCheckInterval),
   days_before_renewal |->
     NumberOr(e.DAYS_BEFORE_RENEWAL, ParseI64(e.DAYS_BEFORE_RENEWAL.v),
              DaysBeforeRenewal),
   cert_validity_days |->
     NumberOr(e.CERT_VALIDITY_DAYS, ParseU32(e.CERT_VALIDITY_DAYS.v),
              DefaultCertValidityDays)]

\* The environments examined.
ServerIpValues ==
  {Unset, NotUnicode, Text("192.168.1.100"), Text("api.example.com")}

CertDomainsValues ==
  {Unset, NotUnicode, Text("api.example.com,10.0.0.1"), Text(""),
   Text("2001:db8::1"), Text("256.1.1.1,b")}

CheckIntervalValues == {Unset, Text("abc"), Text("0")}

DaysBeforeRenewalValues ==
  {Unset, NotUnicode, Text("-1"), Text("5 "), Text("7")}

CertValidityDaysValues ==
  {Unset, Text("4294967296"), Text("3"), Text("-1"), Text("90"),
   Text("178956970"), Text("178956971")}

\* Config::from_env at process start: the only error is the missing
\* identity, which main() propagates.
FromEnv ==
  /\ pc = "start"
  /\ IF ServerIdentity(env).ok
       THEN /\ conf' = ConfigOf(env)
            /\ pc' = "loaded"
            /\ exit' = exit
       ELSE /\ conf' = conf
            /\ Exit("err")
  /\ UNCHANGED <<settings, env, res,
                 phase, cycles, now, files, cy>>

\* ------------------------------------------------------------------ SAN
\* An IPv4 octet as std::net parses it: one to three digits, no leading
\* zero, at most 255.
IsOctet(cs) ==
  /\ Len(cs) \in 1..3
  /\ \A i \in 1..Len(cs) : IsDigit(cs[i])
  /\ Len(cs) > 1 => cs[1] # "0"
  /\ Value(cs) <= 255

IsIpv4(cs) ==
  LET p == SplitOn(cs, ".") IN
  Len(p) = 4 /\ \A i \in 1..4 : IsOctet(p[i])

\* An IPv6 address: eight groups of one to four hex digits separated by
\* ':', or fewer with one "::" standing for the groups left out (addresses
\* with an embedded IPv4 part are not among the identities examined).
IsIpv6(cs) ==
  LET p == SplitOn(cs, ":")
      n == Len(p)
      E == {i \in 1..n : p[i] = <<>>}
      a == CHOOSE i \in E : \A j \in E : i <= j
      b == CHOOSE i \in E : \A j \in E : i >= j
  IN /\ \A i \in (1..n) \ E :
          Len(p[i]) <= 4 /\ \A j \in 1..Len(p[i]) : IsHexDigit(p[i][j])
     /\ IF E = {} THEN n = 8
        ELSE /\ E = a..b
             /\ n - Cardinality(E) <= 7
             /\ \/ a = 1 /\ b = n /\ n = 3
                \/ a = 1 /\ b = 2 /\ n > 2
                \/ a > 1 /\ b = n /\ a = n - 1
                \/ a > 1 /\ b < n /\ a = b

\* lib.rs is_ip_address: `addr.parse::<std::net::IpAddr>().is_ok()`.
is_ip_address(addr) == IsIpv4(Chars(addr)) \/ IsIpv6(Chars(addr))

\* A typed SAN entry.
SanEntry(addr) == (IF is_ip_address(addr) THEN "IP:" ELSE "DNS:") \o addr

\* try_step_cli: `--san <server_ip> --san localhost --san 127.0.0.1`; the
\* values are passed untyped and step types each one by whether it is an
\* IP address.
StepSans(c) == {SanEntry(v) : v \in {c.server_ip, "localhost", "127.0.0.1"}}

\* A fallback that always writes the identity as a DNS entry.
OpensslSanAlwaysDns(v, c) ==
  "DNS:localhost,IP:127.0.0.1," \o "DNS:" \o c.server_ip

\* try_openssl's subjectAltName text.
\*   main.rs: format!("IP:{},DNS:localhost,IP:127.0.0.1", server_ip)
\*   lib.rs : DNS:localhost, IP:127.0.0.1, then IP:<id> or DNS:<id> by
\*            is_ip_address, joined with ','.
OpensslSan(v, c) ==
  IF v = "bin"
    THEN "IP:" \o c.server_ip \o ",DNS:localhost,IP:127.0.0.1"
    ELSE "DNS:localhost,IP:127.0.0.1," \o SanEntry(c.server_ip)

\* The entries of a subjectAltName text.
SanEntries(san) ==
  LET p == SplitOn(Chars(san), ",") IN {Str(p[i]) : i \in 1..Len(p)}

\* The SAN arguments both backends are given for the loaded Config.
BuildSan ==
  /\ pc = "loaded"
  /\ mode \in {"run", "once"}
  /\ res' = [res EXCEPT !.step = StepSans(conf),
                        !.openssl = OpensslSan(variant, conf)]
  /\ pc' = "san"
  /\ UNCHANGED <<settings, env, conf,
                 phase, cycles, now, files, cy, exit>>

\* --------------------------------------------------------- days remaining
\* Seconds in a day (chrono's num_days is num_seconds / 86400).
SecondsPerDay == 86400

\* The largest number of whole days to expiry examined.
MaxDaysLeft == 8

\* chrono::Duration::num_days: whole days, truncated toward zero.
NumDays(secs) ==
  IF secs >= 0 THEN secs \div SecondsPerDay ELSE -((-secs) \div SecondsPerDay)

\* Times to expiry examined, in seconds: on a day boundary, just before
\* and just after one, from an expired certificate to MaxDaysLeft days.
SecsValues ==
  {d * SecondsPerDay + o : d \in (-2)..MaxDaysLeft, o \in {-1, 0, 1}}

\* check_cert_expiry on a readable expiry time: days_left and the comparison
\* with the configured threshold.
ExpiryVerdict ==
  /\ pc = "san"
  /\ \E secs \in SecsValues :
       res' = [res EXCEPT
                 !.secs = secs,
                 !.check = IF NeedsRenewalAt(NumDays(secs), conf.days_before_renewal)
                             THEN "due" ELSE "valid"]
  /\ pc' = "checked"
  /\ UNCHANGED <<settings, env, conf,
                 phase, cycles, now, files, cy, exit>>

\* main.rs main: the first command-line argument, as the match sees it
\* ("unknown" stands for any other word).
Commands == {"once", "version", "help", "unknown"}

\* main.rs main, the match on the command, which runs after
\* Config::from_env()? has returned the configuration: version and help
\* print and return Ok(()), an unknown command calls std::process::exit(1).
\* (run and once go on into the manager.)
MainCommand ==
  /\ pc = "loaded"
  /\ variant = "bin"
  /\ mode \notin {"run", "once"}
  /\ IF mode \in {"version", "help"} THEN Exit("ok") ELSE Exit("err")
  /\ UNCHANGED <<settings, env, conf,
                 res, phase, cycles, now, files, cy>>

\* str::contains with a string pattern.
Contains(str, sub) ==
  \E i \in 1..(Len(str) - Len(sub) + 1) : SubSeq(str, i, i + Len(sub) - 1) = sub

IsWhitespace(ch) == ch \in {" ", "\t"}

\* str::split_whitespace: the maximal runs of non-whitespace characters.
RECURSIVE SplitWhitespace(_)
SplitWhitespace(cs) ==
  IF cs = <<>> THEN <<>>
  ELSE IF IsWhitespace(Head(cs)) THEN SplitWhitespace(Tail(cs))
  ELSE LET ws == {i \in 1..Len(cs) : IsWhitespace(cs[i])}
           n == IF ws = {} THEN Len(cs) + 1
                ELSE CHOOSE j \in ws : \A k \in ws : j <= k
       IN <<Str(SubSeq(cs, 1, n - 1))>> \o SplitWhitespace(SubSeq(cs, n, Len(cs)))

\* The argument vector of the process a reload command is run as (the empty
\* vector: nothing is run, signal_restart returns "Empty reload command").
\* main.rs signal_restart hands the command to `sh -c` when it contains "&&"
\* or ';' and splits it on whitespace otherwise; lib.rs
\* execute_reload_command always uses `sh -c`.
ReloadArgv(v, cmd) ==
  IF v = "lib" \/ Contains(cmd, "&&") \/ Contains(cmd, ";")
    THEN <<"sh", "-c", cmd>>
    ELSE SplitWhitespace(Chars(cmd))

\* Values of RELOAD_COMMAND: a plain command, the four ways of chaining
\* commands, and a blank value.
ReloadCommandValues ==
  {"nginx -s reload", "a && b", "a; b", "a || b", "a | b", " "}

\* The reload step applied to a configured command.
ReloadInvocation ==
  /\ pc = "loaded"
  /\ mode \in {"run", "once"}
  /\ \E cmd \in ReloadCommandValues :
       res' = [res EXCEPT !.cmd = cmd, !.argv = ReloadArgv(variant, cmd)]
  /\ pc' = "reload_cmd"
  /\ UNCHANGED <<settings, env, conf,
                 phase, cycles, now, files, cy, exit>>

\* 2^16: 32-bit values are kept as two 16-bit halves [hi, lo].
HalfWord == 256 * 256

\* days * 24 as a mathematical integer, in halves (hi is not reduced).
Times24(days) ==
  LET lo == (days % HalfWord) * HoursPerDay
      hi == (days \div HalfWord) * HoursPerDay + (lo \div HalfWord)
  IN [hi |-> hi, lo |-> lo % HalfWord]

\* The value as a u32 holds it after a wrapping multiplication.
WrapU32(x) == [x EXCEPT !.hi = @ % HalfWord]

Overflows(x) == x.hi >= HalfWord

\* generate_cert: `let validity_hours = self.config.cert_validity_days * 24;`
\* in u32, handed to the step CLI as --not-after <hours>h, while openssl
\* gets -days <cert_validity_days>.  When the product does not fit, a build
\* with overflow checks panics and one without them wraps.
ValidityRequest ==
  /\ pc = "loaded"
  /\ mode \in {"run", "once"}
  /\ LET x == Times24(conf.cert_validity_days) IN
     \E checks \in BOOLEAN :
       IF Overflows(x) /\ checks
         THEN /\ res' = [res EXCEPT !.panic = TRUE]
              /\ Exit("err")
         ELSE /\ res' = [res EXCEPT !.hours = WrapU32(x),
                                    !.days = conf.cert_validity_days]
              /\ pc' = "validity"
              /\ exit' = exit
  /\ UNCHANGED <<settings, env, conf,
                 phase, cycles, now, files, cy>>

Next ==
  \/ LoadConfig
  \/ Initialize
  \/ Check
  \/ Sleep
  \/ BackupMkdir
  \/ BackupCopyCrt
  \/ BackupCopyKey
  \/ BackupClean
  \/ GenClear
  \/ TryStepCli
  \/ TryOpenssl
  \/ Verify
  \/ ReplaceCheck
  \/ AsideCrt
  \/ AsideKey
  \/ MoveCrt
  \/ MoveKey
  \/ ChmodCrt
  \/ ChmodKey
  \/ SignalRestart
  \/ ExecuteReloadCommand
  \/ Notify

Spec == Init /\ [][Next]_vars

\* The process start and the pure computations on the configuration, for
\* every environment examined.
ConfigInit ==
  /\ variant \in {"bin", "lib"}
  /\ mode \in IF variant = "bin" THEN Commands ELSE {"once"}
  /\ webhook = FALSE
  /\ reloadCmd = FALSE
  /\ interval = 1
  /\ pc = "start"
  /\ phase = "loop"
  /\ cycles = 0
  /\ now = 0
  /\ live = NoPair
  /\ tmp = NoPair
  /\ aside = NoPair
  /\ backups = {}
  /\ sentinel = FALSE
  /\ cy = NewCycle(live)
  /\ exit = "none"
  /\ \E ip \in ServerIpValues, dom \in CertDomainsValues,
        ci \in CheckIntervalValues, dbr \in DaysBeforeRenewalValues,
        cvd \in CertValidityDaysValues :
       env = [SERVER_IP |-> ip, CERT_DOMAINS |-> dom, CHECK_INTERVAL |-> ci,
              DAYS_BEFORE_RENEWAL |-> dbr, CERT_VALIDITY_DAYS |-> cvd]
  /\ identitySet = ServerIdentity(env).ok
  /\ conf = NoConfig
  /\ res = NoResult

ConfigNext ==
  \/ FromEnv
  \/ MainCommand
  \/ BuildSan
  \/ ExpiryVerdict
  \/ ReloadInvocation
  \/ ValidityRequest

SpecConfig == ConfigInit /\ [][ConfigNext]_vars

\* ------------------------------------------- the backup step on its own
\* The clock value at which the backup directory is first looked at.
FirstCall == RetentionDays + 1

\* Backup pairs left by earlier runs, aged 31, 30 and 29 days at FirstCall
\* (the timestamp in the name is the time of the copy).
OldBackups(ages) ==
  {[kind |-> k, ts |-> FirstCall - a, gen |-> 1, mtime |-> FirstCall - a] :
     k \in {"crt", "key"}, a \in ages}

\* A renewal is about to call backup_cert: any live pair, complete or not,
\* and any backups of earlier runs.
BackupInit ==
  /\ variant \in {"bin", "lib"}
  /\ mode \in {"run", "once"}
  /\ identitySet = TRUE
  /\ webhook = FALSE
  /\ reloadCmd = FALSE
  /\ interval = 1
  /\ pc = "bk_mkdir"
  /\ phase = "loop"
  /\ cycles = 1
  /\ now = FirstCall
  /\ \E c \in {Missing, OldCrt(TRUE)}, k \in {Missing, OldKey} :
       live = [crt |-> c, key |-> k]
  /\ tmp = NoPair
  /\ aside = NoPair
  /\ \E ages \in SUBSET {RetentionDays - 1, RetentionDays, RetentionDays + 1} :
       backups = OldBackups(ages)
  /\ sentinel = FALSE
  /\ cy = NewCycle(live)
  /\ exit = "none"
  /\ env = EnvOf(Text("127.0.0.1"))
  /\ conf = NoConfig
  /\ res = NoResult

\* backup_cert is called again on the same directory: by the next cycle of
\* the loop (CHECK_INTERVAL may be 0) or by the next run of the program.
\* The clock has the same value (the same second, hence the same timestamp
\* in the entry names) or a later one.
BackupAgain ==
  /\ pc = "gen_clear"
  /\ cycles < MaxBackupCalls
  /\ cycles' = cycles + 1
  /\ \E d \in {0, 1} : now' = now + d
  /\ cy' = NewCycle(live)
  /\ pc' = "bk_mkdir"
  /\ UNCHANGED <<config, phase, files, exit>>

BackupNext ==
  \/ BackupMkdir
  \/ BackupCopyCrt
  \/ BackupCopyKey
  \/ BackupClean
  \/ BackupAgain

SpecBackup == BackupInit /\ [][BackupNext]_vars

\* ================================================================ claims
\* The outcomes of a renewal that failed part-way.
FailedOutcomes ==
  {"backup_failed", "generation_failed", "verification_failed",
   "deployment_failed"}

\* The positions inside the deployment step, between its file operations.
DeployPcs ==
  {"aside_crt", "aside_key", "mv_crt", "mv_key", "chmod_crt", "chmod_key"}

\* C1: after a renewal that failed part-way (at backup, generation,
\* verification or deployment), if a live certificate and a live key existed
\* before the cycle, both live paths still exist.
C1_FailedRenewalKeepsLive ==
  (/\ CycleEnded
   /\ cy.outcome \in FailedOutcomes
   /\ Exists(cy.live0.crt)
   /\ Exists(cy.live0.key))
  => (Exists(live.crt) /\ Exists(live.key))

\* C2: in every intermediate state of the deployment step, each live path
\* that existed when the step began still exists (no reader ever finds a
\* live file missing).
C2_ReaderNeverSeesMissingLive ==
  pc \in DeployPcs =>
    \A w \in {"crt", "key"} : Exists(cy.dep0[w]) => Exists(live[w])

\* C3: in daemon mode no failure inside a cycle terminates the loop: once a
\* cycle has started, the process never exits.
C3_DaemonNeverExits ==
  (mode = "run" /\ cycles >= 1) => pc # "exited"

\* C4: when the live certificate exists but its expiry cannot be read or
\* parsed, the cycle is abandoned: no backup, generation or deployment in
\* that cycle, the live pair unchanged, and the daemon goes on to its sleep.
C4_UnreadableExpiryAbandonsCycle ==
  cy.check \in {"exit_nonzero", "unparsable"} =>
    /\ pc \in {"check", "sleep", "exited"}
    /\ cy.backup = "none" /\ cy.step = "none" /\ cy.openssl = "none"
    /\ cy.moved = {}
    /\ live = cy.live0
    /\ mode = "run" => pc # "exited"

\* C5: in one-shot mode the exit status reflects the cycle's outcome: an
\* error for generation-failed, verification-failed and deployment-failed,
\* and success exactly when the certificate was not due or was renewed and
\* deployed.
C5_OnceExitReflectsOutcome ==
  (mode = "once" /\ pc = "exited" /\ cycles >= 1) =>
    /\ cy.outcome \in {"generation_failed", "verification_failed",
                       "deployment_failed"} => exit = "err"
    /\ exit = "ok" <=> cy.outcome \in {"skipped", "success"}

\* C6: whenever the primary backend fails in any way (non-zero exit, or the
\* executable cannot be started), the fallback backend has been attempted
\* by the time the cycle ends.
C6_FallbackAfterAnyPrimaryFailure ==
  (CycleEnded /\ cy.step \in {"spawn_err", "fail", "fail_partial"})
    => cy.openssl # "none"

\* C7: in every cycle the primary backend is invoked before the fallback,
\* and the fallback is never invoked in a cycle in which the primary
\* reported success, whatever happens to the deployment afterwards.
C7_ChainOrder ==
  /\ cy.openssl # "none" => cy.step # "none"
  /\ BackendOk(cy.step) => cy.openssl = "none"

\* C7's case: the primary succeeded, the deployment of its output failed,
\* and the cycle ended.
C7_Witness ==
  /\ CycleEnded
  /\ BackendOk(cy.step)
  /\ cy.outcome = "deployment_failed"

\* C8: if every backend reports failure, the outcome is generation-failed,
\* nothing is deployed, the live pair is unchanged and no reload trigger
\* fires in that cycle.
C8_AllBackendsFail ==
  (cy.step \in {"fail", "fail_partial"} /\ cy.openssl \in {"fail", "fail_partial"})
    => /\ cy.outcome = "generation_failed"
       /\ cy.moved = {}
       /\ live = cy.live0
       /\ ~cy.reload

\* C8's case: both backends failed in a cycle that began with a live pair,
\* and the cycle ended.
C8_Witness ==
  /\ CycleEnded
  /\ cy.step \in {"fail", "fail_partial"}
  /\ cy.openssl \in {"fail", "fail_partial"}
  /\ Exists(cy.live0.crt) /\ Exists(cy.live0.key)

\* C9: a candidate certificate whose text does not contain the configured
\* identity fails verification and is never renamed into the live path.
C9_NoIdentityNeverDeployed ==
  /\ (pc = "rep_check" /\ cy.verify = "ok") => tmp.crt.id
  /\ "crt" \in cy.moved => live.crt.id

FailureNotes ==
  {"backup_failed", "generation_failed", "verification_failed",
   "replacement_failed", "renewal_error"}

\* Both candidate files were renamed into the live paths in this cycle.
Deployed == cy.moved = {"crt", "key"}

\* C11: the canonical step order holds in every renewing cycle: a backend is
\* invoked only after the backup step completed successfully, and a
\* candidate file is renamed into a live path only after that candidate was
\* verified successfully in the same cycle.
C11_CanonicalStepOrder ==
  /\ cy.step # "none" => cy.backup \in {"done", "nothing"}
  /\ cy.moved # {} => cy.verify = "ok"

\* C12: a failure of the backup step short-circuits the cycle: no backend
\* is invoked and the live certificate and key are not replaced, in daemon
\* mode as well as in one-shot mode.
C12_BackupFailureShortCircuits ==
  cy.backup = "failed" =>
    /\ pc \notin {"gen_clear", "step", "openssl"}
    /\ cy.step = "none" /\ cy.openssl = "none"
    /\ cy.moved = {}
    /\ live = cy.live0

\* C13: every cycle that ends in a terminal failure at backup, generation,
\* verification or deployment has attempted a failure notification by the
\* time it ends, in daemon mode and in one-shot mode.
C13_FailureIsNotified ==
  (CycleEnded /\ cy.outcome \in FailedOutcomes)
    => cy.notes \cap FailureNotes # {}

\* C14: a notification delivery failure (network error or non-success HTTP
\* response) never changes a cycle's outcome: a cycle whose certificate was
\* deployed still ends as success, one-shot mode exits with success and the
\* daemon does not exit.
C14_DeliveryFailureChangesNothing ==
  (cy.sent \in {"http_err", "net_err"} /\ Deployed /\ cy.ret = "true")
    => /\ cy.outcome = "success"
       /\ pc = "exited" => (mode = "once" /\ exit = "ok")

\* C15: when no notification endpoint is configured, sending a notification
\* performs no request and succeeds exactly as a delivered one does, so a
\* cycle that attempted a notification goes on as it would with a working
\* endpoint: the process never exits in error in such a cycle.
C15_NoEndpointNotificationSucceeds ==
  ~webhook =>
    /\ cy.sent \in {"none", "skipped"}
    /\ cy.notes # {} => cy.sent = "skipped"
    /\ \A d \in Delivery :
         /\ SendSlackNotificationFails(d) = SendSlackNotificationFails("ok")
         /\ SendNotificationFails(d) = SendNotificationFails("ok")
    /\ cy.sent = "skipped" => exit # "err"

\* C15's case: without an endpoint, a cycle deployed new material, attempted
\* its success notification and ended.
C15_Witness ==
  /\ ~webhook
  /\ CycleEnded
  /\ cy.outcome = "success"
  /\ "success" \in cy.notes
  /\ cy.sent = "skipped"

\* C16: a failure to set file permissions after the candidates were renamed
\* into the live paths is logged only: the new material stays at the live
\* paths, the cycle is not a failed renewal, the reload trigger still fires
\* and the daemon does not exit.
C16_ChmodFailureLoggedOnly ==
  cy.perm = "failed" =>
    /\ live.crt.gen = GenOf(cycles) /\ live.key.gen = GenOf(cycles)
    /\ cy.outcome \notin FailedOutcomes
    /\ mode = "run" => pc # "exited"
    /\ (CycleEnded /\ reloadCmd) => cy.rres # "none"

\* C17: after every cycle that ends in success, the live certificate and
\* live key are the pair generated in that cycle, the certificate has mode
\* 644 and the private key has mode 600.
C17_SuccessLeavesNewPair ==
  cy.outcome = "success" =>
    /\ live.crt.gen = GenOf(cycles) /\ live.key.gen = GenOf(cycles)
    /\ live.crt.mode = "644"
    /\ live.key.mode = "600"

\* C17's case: a cycle that began with an older live pair ended in success.
C17_Witness ==
  /\ CycleEnded
  /\ cy.outcome = "success"
  /\ Exists(cy.live0.crt) /\ Exists(cy.live0.key)

\* C18: a reload command that runs and exits non-zero does not fail the
\* renewal: the renewal's result is success, the deployed material stays in
\* place, and the success notification has been attempted by the time the
\* cycle ends.
C18_NonZeroReloadIsSuccess ==
  cy.rres = "exit_nonzero" =>
    /\ cy.ret = "true" /\ cy.outcome = "success"
    /\ Deployed
    /\ live.crt.gen = GenOf(cycles) /\ live.key.gen = GenOf(cycles)
    /\ CycleEnded => "success" \in cy.notes

\* C18's case: the reload command exited non-zero and the cycle ended.
C18_Witness ==
  /\ CycleEnded
  /\ cy.rres = "exit_nonzero"

\* C19: a reload execution failure of any kind (the command cannot be
\* started, is empty or blank, or the sentinel file cannot be written) is
\* logged only: after a successful deployment the cycle still ends as
\* success and the daemon does not exit.
C19_ReloadFailureNeverEscalates ==
  cy.rres \in {"spawn_err", "empty", "sentinel_err"} =>
    /\ cy.outcome = "success"
    /\ mode = "run" => pc # "exited"

\* C20: if no reload command is configured, every cycle that deploys new
\* material writes the sentinel file before the cycle ends, and no sentinel
\* is written in a cycle that deploys nothing.
C20_SentinelIffDeployed ==
  ~reloadCmd =>
    /\ (CycleEnded /\ Deployed) => cy.rres = "sentinel"
    /\ cy.rres = "sentinel" => (Deployed /\ sentinel)

\* C21: when no live certificate file is present, the expiry check reports
\* needs-renewal as a normal result, not an error, and the cycle takes the
\* renewal path of a certificate that is due: the backup step is entered
\* and the cycle is neither skipped nor abandoned at the check.
C21_MissingCertIsNeedsRenewal ==
  /\ CheckReturn("missing") = "false"
  /\ CheckDecision("missing") = CheckDecision("due")
  /\ cy.check = "missing" =>
       /\ ~Exists(cy.live0.crt)
       /\ cy.outcome \notin {"skipped", "check_failed"}
       /\ pc = "bk_mkdir" \/ cy.backup # "none"

\* C21's case: a cycle whose expiry check found no certificate file went
\* through the whole renewal path and ended in success.
C21_Witness ==
  /\ CycleEnded
  /\ cy.check = "missing"
  /\ cy.outcome = "success"

\* C27: backup pruning is best-effort: no failure during pruning (an old
\* entry that cannot be deleted, a backup directory that cannot be listed
\* or read) aborts the cycle; generation is still attempted in that cycle.
C27_PruningIsBestEffort ==
  cy.prune \in {"stuck", "list_err"} =>
    /\ cy.outcome # "backup_failed"
    /\ pc # "exited"
    /\ CycleEnded => cy.step # "none"

\* C28: when the expiry check reports the certificate valid, the cycle is
\* skipped: no backup, generation, deployment, reload or notification is
\* performed and every file under the certificate directory is unchanged.
C28_ValidCertSkipsCycle ==
  [][(pc = "check" /\ cy'.check = "valid") =>
       /\ cy'.outcome = "skipped"
       /\ pc' \in {"sleep", "exited"}
       /\ cy'.backup = "none" /\ cy'.step = "none" /\ cy'.openssl = "none"
       /\ cy'.moved = {} /\ ~cy'.reload /\ cy'.rres = "none"
       /\ cy'.notes = {} /\ cy'.sent = "none"
       /\ UNCHANGED files]_vars

\* C28's case: a cycle of the daemon found an existing certificate valid
\* and was skipped.
C28_Witness ==
  /\ cy.check = "valid"
  /\ cy.outcome = "skipped"
  /\ pc = "sleep"
  /\ Exists(live.crt) /\ Exists(live.key)

\* C22: the renewal threshold is inclusive: for every readable expiry time
\* and every threshold, the expiry check reports needs-renewal if and only
\* if the whole number of days remaining (time to expiry truncated to days)
\* is at most days_before_renewal, and valid otherwise.
C22_ThresholdInclusive ==
  pc = "checked" =>
    \E d \in (-3)..(MaxDaysLeft + 1) :
      /\ IF res.secs >= 0
           THEN d >= 0 /\ d * SecondsPerDay <= res.secs
                       /\ res.secs < (d + 1) * SecondsPerDay
           ELSE d <= 0 /\ res.secs <= d * SecondsPerDay
                       /\ (d - 1) * SecondsPerDay < res.secs
      /\ res.check = "due" <=> d <= conf.days_before_renewal
      /\ res.check = "valid" <=> d > conf.days_before_renewal

\* C22's case: a second more than exactly threshold days remain, which
\* truncates to the threshold, and the check reports needs-renewal.
C22_Witness ==
  /\ pc = "checked"
  /\ conf.days_before_renewal > 0
  /\ res.secs = conf.days_before_renewal * SecondsPerDay + 1
  /\ res.check = "due"

\* C23: for every subject identity, the SAN list built for generation
\* consists of DNS:localhost, IP:127.0.0.1 and the identity, as an IP entry
\* if it parses as an IPv4/IPv6 address and as a DNS entry otherwise.
C23_SanClassification ==
  pc \in {"san", "checked"} =>
    LET expected == {"DNS:localhost", "IP:127.0.0.1",
                     IF is_ip_address(conf.server_ip)
                       THEN "IP:" \o conf.server_ip
                       ELSE "DNS:" \o conf.server_ip}
    IN /\ SanEntries(res.openssl) = expected
       /\ res.step = expected

\* C24: SAN construction is backend-independent: for the same
\* configuration, the set of typed SAN entries requested from the primary
\* backend equals the set requested from the fallback backend.
C24_SanBackendIndependent ==
  pc \in {"san", "checked"} => res.step = SanEntries(res.openssl)

\* Config::from_env returned Err: the process ended without a configuration.
LoadFailed == pc = "exited" /\ conf = NoConfig

\* C29 as stated: configuration loading fails if and only if neither
\* SERVER_IP nor CERT_DOMAINS is set; otherwise the identity is SERVER_IP
\* when set, else the first comma-separated entry of CERT_DOMAINS; and an
\* absent or unparsable CHECK_INTERVAL, DAYS_BEFORE_RENEWAL or
\* CERT_VALIDITY_DAYS gives the documented default.
C29_LoadFailsIffIdentityUnset ==
  pc # "start" =>
    /\ LoadFailed <=>
         (env.SERVER_IP.k = "unset" /\ env.CERT_DOMAINS.k = "unset")
    /\ ~LoadFailed =>
         /\ conf.server_ip = IF env.SERVER_IP.k # "unset"
                               THEN env.SERVER_IP.v
                               ELSE FirstEntry(env.CERT_DOMAINS.v)
         /\ ~(VarOk(env.CHECK_INTERVAL) /\ ParseU64(env.CHECK_INTERVAL.v).ok)
              => conf.check_interval = DefaultCheckInterval
         /\ ~(VarOk(env.DAYS_BEFORE_RENEWAL) /\ ParseI64(env.DAYS_BEFORE_RENEWAL.v).ok)
              => conf.days_before_renewal = DaysBeforeRenewal
         /\ ~(VarOk(env.CERT_VALIDITY_DAYS) /\ ParseU32(env.CERT_VALIDITY_DAYS.v).ok)
              => conf.cert_validity_days = DefaultCertValidityDays

\* C29, amended: configuration loading fails if and only if neither
\* SERVER_IP nor CERT_DOMAINS holds a value that is valid Unicode (each is
\* unset or set to other bytes); otherwise the identity is SERVER_IP when
\* it holds such a value, else the first comma-separated entry of
\* CERT_DOMAINS; and an absent, non-Unicode or unparsable CHECK_INTERVAL,
\* DAYS_BEFORE_RENEWAL or CERT_VALIDITY_DAYS gives the documented default.
C29_LoadFailsIffNoUnicodeIdentity ==
  pc # "start" =>
    /\ LoadFailed <=> (~VarOk(env.SERVER_IP) /\ ~VarOk(env.CERT_DOMAINS))
    /\ LoadFailed => exit = "err"
    /\ ~LoadFailed =>
         /\ conf.server_ip = IF VarOk(env.SERVER_IP)
                               THEN env.SERVER_IP.v
                               ELSE FirstEntry(env.CERT_DOMAINS.v)
         /\ ~(VarOk(env.CHECK_INTERVAL) /\ ParseU64(env.CHECK_INTERVAL.v).ok)
              => conf.check_interval = DefaultCheckInterval
         /\ ~(VarOk(env.DAYS_BEFORE_RENEWAL) /\ ParseI64(env.DAYS_BEFORE_RENEWAL.v).ok)
              => conf.days_before_renewal = DaysBeforeRenewal
         /\ ~(VarOk(env.CERT_VALIDITY_DAYS) /\ ParseU32(env.CERT_VALIDITY_DAYS.v).ok)
              => conf.cert_validity_days = DefaultCertValidityDays

\* C29's case: SERVER_IP is set but not Unicode, the identity comes from a
\* CERT_DOMAINS list, and an out-of-range CERT_VALIDITY_DAYS gave the
\* default.
C29_Witness ==
  /\ pc = "loaded"
  /\ env.SERVER_IP = NotUnicode
  /\ env.CERT_DOMAINS = Text("api.example.com,10.0.0.1")
  /\ conf.server_ip = "api.example.com"
  /\ env.CERT_VALIDITY_DAYS = Text("4294967296")
  /\ conf.cert_validity_days = DefaultCertValidityDays

\* C30: every configuration the program runs with satisfies
\* cert_validity_days > days_before_renewal.
C30_ValidityExceedsThreshold ==
  pc \in {"loaded", "san", "checked"} =>
    conf.cert_validity_days > conf.days_before_renewal

\* C25: every call of the backup step with both the live certificate and
\* the live key present adds exactly two new entries to the backup
\* directory (one per copy), including when two backups are taken within
\* the same second; a call with the certificate or the key missing adds
\* none and succeeds.  (Calls in which a file operation itself failed are
\* left aside.)
C25_BackupAddsTwoEntries ==
  [][/\ (pc = "bk_crt" /\ pc' = "bk_key")
          => Cardinality(backups') = Cardinality(backups) + 1
     /\ (pc = "bk_key" /\ pc' = "bk_clean")
          => Cardinality(backups') = Cardinality(backups) + 1
     /\ (pc = "bk_mkdir" /\ cy'.backup # "failed"
           /\ ~(Exists(live.crt) /\ Exists(live.key)))
          => /\ backups' = backups
             /\ cy'.backup = "nothing"
             /\ pc' = "gen_clear"]_vars

\* C26: backup retention is 30 days: after any renewal cycle whose backup
\* step returned, every backup entry whose modification time was more than
\* 30 days old at the time of the cycle has been removed, and every entry
\* aged 30 days or less is retained.  (Removals that the file system
\* refused are left aside.)
C26_RetentionThirtyDays ==
  /\ []((pc = "gen_clear" /\ cy.backup \in {"done", "nothing"}
           /\ cy.prune # "stuck")
          => \A b \in backups : now - b.mtime <= RetentionDays)
  /\ [][\A b \in backups :
          now - b.mtime <= RetentionDays
            => \E n \in backups' : n.kind = b.kind /\ n.ts = b.ts]_vars

\* C32: the candidate temp paths are empty at the start of every backend
\* attempt, the fallback attempt included.
C32_TempEmptyAtAttemptStart ==
  pc \in {"step", "openssl"} => tmp = NoPair

\* A backend reported success without writing the candidate key, so the
\* key is missing when deployment starts.
CandidateMissing == "ok_nokey" \in {cy.step, cy.openssl}

\* Deployment has been entered in this cycle.
DeploymentStarted ==
  /\ BackendOk(cy.step) \/ BackendOk(cy.openssl)
  /\ variant = "bin" => cy.verify = "ok"

\* C33: if a candidate file is missing when deployment starts, neither live
\* file is modified and the cycle ends as a deployment failure.
C33_MissingCandidateStopsDeployment ==
  (CandidateMissing /\ DeploymentStarted) =>
    /\ live = cy.dep0
    /\ CycleEnded => cy.outcome = "deployment_failed"

\* C34: if moving an existing live file aside fails, no candidate file is
\* renamed into a live path in that cycle.
C34_AsideFailureAborts ==
  cy.asideErr # {} => cy.moved = {}

\* C36: a success notification is sent only in a cycle in which both
\* candidate files were renamed into the live paths and which ended as a
\* success; no failed and no skipped cycle emits one.
C36_SuccessNoteOnlyAfterDeploy ==
  "success" \in cy.notes => (Deployed /\ cy.outcome = "success")

C36_Witness ==
  /\ "success" \in cy.notes
  /\ cy.sent = "ok"
  /\ Deployed
  /\ CycleEnded

\* The files at the live paths are the pair p (permission bits aside).
LivePairIs(p) ==
  \A w \in {"crt", "key"} : live[w].gen = p[w].gen

\* The files at the live paths are the pair generated in this cycle.
LivePairIsNew ==
  \A w \in {"crt", "key"} : live[w].gen = GenOf(cycles)

\* C37: at the end of every cycle the live certificate and the live key
\* belong to the same generation: both are the pair that was live before
\* the cycle or both are the newly generated pair.
C37_LivePairSameGeneration ==
  CycleEnded => (LivePairIs(cy.live0) \/ LivePairIsNew)

\* C38: after every renewal cycle, whatever its outcome (success,
\* generation-failed, verification-failed, deployment-failed), no candidate
\* temp file remains in the certificate directory.
C38_NoCandidateLeftBehind ==
  (CycleEnded /\ cy.outcome \in {"success", "generation_failed",
                                 "verification_failed", "deployment_failed"})
    => tmp = NoPair

\* C39: in daemon mode at most one run of the backend chain happens between
\* two consecutive sleeps, the start of the process included.
C39_OneAttemptPerSleep ==
  mode = "run" => (cy.prior + (IF cy.step # "none" THEN 1 ELSE 0)) <= 1

\* C31: the version and help commands exit successfully and run no renewal
\* cycle, for every environment (one with no server identity included).
C31_VersionHelpSucceed ==
  mode \in {"version", "help"} =>
    /\ cycles = 0
    /\ pc = "exited" => exit = "ok"

\* C35: a configured reload command is executed through a shell if and only
\* if it contains a shell metacharacter sequence (&&, ;, || or |);
\* otherwise it is executed directly with whitespace-split arguments.
C35_ShellIffMetacharacters ==
  pc = "reload_cmd" =>
    IF \E m \in {"&&", ";", "||", "|"} : Contains(res.cmd, m)
      THEN res.argv = <<"sh", "-c", res.cmd>>
      ELSE res.argv = SplitWhitespace(Chars(res.cmd))

\* C40: for every configured validity in days the validity requested from
\* the primary backend is exactly days * 24 hours, computed without overflow
\* or wrap-around, and is the same duration as the day count requested from
\* the fallback backend.
C40_ValidityHoursExact ==
  /\ ~res.panic
  /\ pc = "validity" =>
       /\ res.days = conf.cert_validity_days
       /\ res.hours = Times24(res.days)
====
